---- MODULE Spec2Model ----
(***************************************************************************)
(* Model of the AI-provider gateway of phamiq                              *)
(* (backend/app/services/alleai_service.py and its route callers).         *)
(*                                                                         *)
(* Text is modelled as a sequence of tokens.  A token is one "character"   *)
(* for the purposes of the string and regex operations of the source:      *)
(* the JSON punctuation, the double quote, blank and line break are single *)
(* tokens, and a run of letters that no operation of the source splits is  *)
(* one token (a morpheme such as "leaf" or "miner", so that "leafminer"    *)
(* contains both as the source's substring tests require).                 *)
(***************************************************************************)
EXTENDS Integers, Sequences, FiniteSets, TLC

(***************************************************************************)
(* Python str primitives                                                   *)
(***************************************************************************)

\* str.isspace() for one character.
IsSpace(c) == c \in {" ", "\n"}

\* Letters that have a lower and an upper form: <<lower, Upper>>.
CaseTable ==
  { <<"a", "A">>, <<"b", "B">>, <<"sure", "Sure">>, <<"done", "Done">>,
    <<"cashew", "Cashew">>, <<"leaf", "Leaf">>, <<"miner", "Miner">>,
    <<"tomato", "Tomato">>, <<"maize", "Maize">>, <<"streak", "Streak">>,
    <<"disease", "Disease">>, <<"overview", "Overview">>,
    <<"immediate", "Immediate">>, <<"actions", "Actions">>,
    <<"treatment", "Treatment">>, <<"protocols", "Protocols">>,
    <<"prevent", "Prevent">>, <<"monitoring", "Monitoring">>,
    <<"cost", "Cost">>, <<"effective", "Effective">>,
    <<"severity", "Severity">>, <<"level", "Level">>,
    <<"professional", "Professional">>, <<"help", "Help">>,
    <<"organic", "Organic">>, <<"chemical", "Chemical">>,
    <<"application", "Application">>, <<"pest", "Pest">>,
    <<"soil", "Soil">>, <<"water", "Water">>, <<"hello", "Hello">>,
    <<"true", "True">>, <<"false", "False">>, <<"null", "Null">>,
    <<"json", "Json">>, <<"x", "X">>, <<"y", "Y">> }

\* c.islower()
IsLower(c) == \E p \in CaseTable : p[1] = c

\* c.upper() for the first character of a text (a capitalised token).
Upper(c) == IF IsLower(c) THEN (CHOOSE p \in CaseTable : p[1] = c)[2] ELSE c

\* c.lower()
LowerChar(c) ==
  IF \E p \in CaseTable : p[2] = c
  THEN (CHOOSE p \in CaseTable : p[2] = c)[1] ELSE c

\* str.lower()
Lower(s) == [i \in 1..Len(s) |-> LowerChar(s[i])]

\* needle in hay  (substring test)
Contains(needle, hay) ==
  \E i \in 0..(Len(hay) - Len(needle)) :
     \A j \in 1..Len(needle) : hay[i + j] = needle[j]

\* s.startswith(p), s.endswith(p) for a one-character p
StartsWith(s, c) == Len(s) > 0 /\ s[1] = c
EndsWith(s, c) == Len(s) > 0 /\ s[Len(s)] = c

RECURSIVE LStrip(_)
LStrip(s) == IF Len(s) > 0 /\ IsSpace(s[1]) THEN LStrip(Tail(s)) ELSE s

RECURSIVE RStrip(_)
RStrip(s) ==
  IF Len(s) > 0 /\ IsSpace(s[Len(s)])
  THEN RStrip(SubSeq(s, 1, Len(s) - 1)) ELSE s

\* str.strip()
Strip(s) == RStrip(LStrip(s))

\* the least element of a non-empty set of positions
Min(S) == CHOOSE x \in S : \A y \in S : x <= y
Max(S) == CHOOSE x \in S : \A y \in S : y <= x

\* s.replace(old, new): leftmost non-overlapping occurrences of old.
RECURSIVE Replace(_, _, _)
Replace(s, old, new) ==
  LET starts == {j \in 1..(Len(s) - Len(old) + 1) : SubSeq(s, j, j + Len(old) - 1) = old}
  IN IF starts = {} THEN s
     ELSE SubSeq(s, 1, Min(starts) - 1) \o new
          \o Replace(SubSeq(s, Min(starts) + Len(old), Len(s)), old, new)

\* "\n".join(lines)
RECURSIVE JoinLines(_)
JoinLines(lines) ==
  IF Len(lines) = 0 THEN <<>>
  ELSE IF Len(lines) = 1 THEN lines[1]
  ELSE lines[1] \o <<"\n">> \o JoinLines(Tail(lines))

\* c.isalpha(): a cased letter
IsLetter(c) == \E p \in CaseTable : c \in {p[1], p[2]}

\* key.replace('_', ' ').title(): a letter that follows a non-letter is put
\* in upper case, every other letter in lower case.
Title(s) ==
  [i \in 1..Len(s) |->
     IF s[i] = "_" THEN " "
     ELSE IF i > 1 /\ IsLetter(s[i - 1]) THEN LowerChar(s[i])
     ELSE Upper(LowerChar(s[i]))]

(***************************************************************************)
(* Python values as json.loads produces them.  A dict is the sequence of   *)
(* its items in insertion order, which is the order dict iteration uses.   *)
(***************************************************************************)

PyStr(s) == [t |-> "str", v |-> s]
PyNum(c) == [t |-> "num", v |-> <<c>>]
PyLit(c) == [t |-> "lit", v |-> <<c>>]
PyList(items) == [t |-> "list", v |-> items]
PyDict(items) == [t |-> "dict", v |-> items]
PyNone == PyLit("null")

Item(k, x) == [k |-> k, x |-> x]

IsDict(d) == d.t = "dict"
IsStr(d) == d.t = "str"

\* key in d   (d a dict)
HasKey(d, k) == \E i \in 1..Len(d.v) : d.v[i].k = k

\* d[key]   (d a dict holding key)
Get(d, k) == d.v[CHOOSE i \in 1..Len(d.v) : d.v[i].k = k].x

\* d[key] = x: an existing key keeps its position, a new one is appended.
DictSet(d, k, x) ==
  IF HasKey(d, k)
  THEN PyDict([i \in 1..Len(d.v) |-> IF d.v[i].k = k THEN Item(k, x) ELSE d.v[i]])
  ELSE PyDict(Append(d.v, Item(k, x)))

\* `field in recommendations` as Python evaluates it for the parsed value:
\* key membership for a dict, substring test for a str, element test for a
\* list; for a number or None the operator raises TypeError.
InRaises(d) == d.t \in {"num", "lit"}
In(field, d) ==
  CASE d.t = "dict" -> HasKey(d, field)
    [] d.t = "str" -> Contains(field, d.v)
    [] d.t = "list" -> \E i \in 1..Len(d.v) : d.v[i] = PyStr(field)
    [] OTHER -> FALSE

\* `recommendations[field] = x` raises TypeError unless the value is a dict
\* (a list raises as well: list indices must be integers).
SetRaises(d) == d.t # "dict"

(***************************************************************************)
(* json.loads                                                              *)
(***************************************************************************)

ParseFail == [ok |-> FALSE, val |-> PyNone, pos |-> 0]
ParseOk(val, pos) == [ok |-> TRUE, val |-> val, pos |-> pos]

RECURSIVE SkipWs(_, _)
SkipWs(s, i) == IF i <= Len(s) /\ IsSpace(s[i]) THEN SkipWs(s, i + 1) ELSE i

\* position of the double quote that closes a JSON string whose body starts
\* at i, 0 if there is none; a line break (a control character) inside the
\* string is a decode error.
RECURSIVE FindQuote(_, _)
FindQuote(s, i) ==
  IF i > Len(s) \/ s[i] = "\n" THEN 0
  ELSE IF s[i] = "\"" THEN i ELSE FindQuote(s, i + 1)

ParseString(s, i) ==
  IF i > Len(s) \/ s[i] # "\"" THEN ParseFail
  ELSE LET j == FindQuote(s, i + 1)
       IN IF j = 0 THEN ParseFail
          ELSE ParseOk(PyStr(SubSeq(s, i + 1, j - 1)), j + 1)

RECURSIVE ParseValue(_, _), ParseMembers(_, _, _), ParseElements(_, _, _)

ParseValue(s, i) ==
  IF i > Len(s) THEN ParseFail
  ELSE CASE s[i] = "{" ->
              LET j == SkipWs(s, i + 1)
              IN IF j <= Len(s) /\ s[j] = "}" THEN ParseOk(PyDict(<<>>), j + 1)
                 ELSE ParseMembers(s, j, PyDict(<<>>))
         [] s[i] = "[" ->
              LET j == SkipWs(s, i + 1)
              IN IF j <= Len(s) /\ s[j] = "]" THEN ParseOk(PyList(<<>>), j + 1)
                 ELSE ParseElements(s, j, <<>>)
         [] s[i] = "\"" -> ParseString(s, i)
         [] s[i] \in {"0", "1", "2", "42", "0.9", "0.5"} -> ParseOk(PyNum(s[i]), i + 1)
         [] s[i] \in {"true", "false", "null"} -> ParseOk(PyLit(s[i]), i + 1)
         [] OTHER -> ParseFail

\* members of an object from position i (whitespace already skipped)
ParseMembers(s, i, acc) ==
  LET key == ParseString(s, i)
  IN IF ~key.ok THEN ParseFail
     ELSE LET c == SkipWs(s, key.pos)
          IN IF c > Len(s) \/ s[c] # ":" THEN ParseFail
             ELSE LET val == ParseValue(s, SkipWs(s, c + 1))
                  IN IF ~val.ok THEN ParseFail
                     ELSE LET e == SkipWs(s, val.pos)
                              acc2 == DictSet(acc, key.val.v, val.val)
                          IN IF e > Len(s) THEN ParseFail
                             ELSE IF s[e] = "}" THEN ParseOk(acc2, e + 1)
                             ELSE IF s[e] = ","
                                  THEN ParseMembers(s, SkipWs(s, e + 1), acc2)
                                  ELSE ParseFail

\* elements of an array from position i (whitespace already skipped)
ParseElements(s, i, acc) ==
  LET val == ParseValue(s, i)
  IN IF ~val.ok THEN ParseFail
     ELSE LET e == SkipWs(s, val.pos)
              acc2 == Append(acc, val.val)
          IN IF e > Len(s) THEN ParseFail
             ELSE IF s[e] = "]" THEN ParseOk(PyList(acc2), e + 1)
             ELSE IF s[e] = ","
                  THEN ParseElements(s, SkipWs(s, e + 1), acc2)
                  ELSE ParseFail

\* json.loads(s): ok = FALSE stands for json.JSONDecodeError
json_loads(s) ==
  LET r == ParseValue(s, SkipWs(s, 1))
  IN IF r.ok /\ SkipWs(s, r.pos) = Len(s) + 1
     THEN [ok |-> TRUE, val |-> r.val]
     ELSE [ok |-> FALSE, val |-> PyNone]

\* str(x) as an f-string renders a value; repr(x) for what a container holds.
RECURSIVE py_repr(_), ReprItems(_), ReprElems(_)
ReprItems(items) ==
  IF Len(items) = 0 THEN <<>>
  ELSE <<"'">> \o items[1].k \o <<"'", ":", " ">> \o py_repr(items[1].x)
       \o (IF Len(items) > 1 THEN <<",", " ">> ELSE <<>>) \o ReprItems(Tail(items))
ReprElems(items) ==
  IF Len(items) = 0 THEN <<>>
  ELSE py_repr(items[1])
       \o (IF Len(items) > 1 THEN <<",", " ">> ELSE <<>>) \o ReprElems(Tail(items))
py_repr(x) ==
  CASE x.t = "str" -> <<"'">> \o x.v \o <<"'">>
    [] x.t = "num" -> x.v
    [] x.t = "lit" -> (IF x.v = <<"null">> THEN <<"None">> ELSE <<Upper(x.v[1])>>)
    [] x.t = "list" -> <<"[">> \o ReprElems(x.v) \o <<"]">>
    [] x.t = "dict" -> <<"{">> \o ReprItems(x.v) \o <<"}">>

py_str(x) == IF x.t = "str" THEN x.v ELSE py_repr(x)

(***************************************************************************)
(* re.sub for the five patterns _clean_response uses.  Each scans the text *)
(* from the left, takes the leftmost match at every position and resumes   *)
(* after it, as re.sub does.                                               *)
(***************************************************************************)

\* position of the first c at or after i, 0 if there is none
FindChar(s, i, c) ==
  LET at == {j \in i..Len(s) : s[j] = c}
  IN IF at = {} THEN 0 ELSE Min(at)

\* last position of the whitespace run that starts at i
RECURSIVE WsRunEnd(_, _)
WsRunEnd(s, i) ==
  IF i < Len(s) /\ IsSpace(s[i + 1]) THEN WsRunEnd(s, i + 1) ELSE i

\* re.sub(r'\{[^}]*\}', '', s) with o = "{", c = "}";
\* re.sub(r'\[[^\]]*\]', '', s) with o = "[", c = "]"
RECURSIVE SubDelimited(_, _, _, _)
SubDelimited(s, i, o, c) ==
  LET starts == {j \in i..Len(s) : s[j] = o /\ FindChar(s, j + 1, c) # 0}
  IN IF starts = {} THEN SubSeq(s, i, Len(s))
     ELSE SubSeq(s, i, Min(starts) - 1)
          \o SubDelimited(s, FindChar(s, Min(starts) + 1, c) + 1, o, c)

\* end of the match of r'"[^"]*":\s*"[^"]*"' that starts at i, 0 if none
KeyValueEnd(s, i) ==
  IF s[i] # "\"" THEN 0
  ELSE LET j == FindChar(s, i + 1, "\"")
       IN IF j = 0 \/ j + 1 > Len(s) \/ s[j + 1] # ":" THEN 0
          ELSE LET k == SkipWs(s, j + 2)
               IN IF k > Len(s) \/ s[k] # "\"" THEN 0
                  ELSE FindChar(s, k + 1, "\"")

\* re.sub(r'"[^"]*":\s*"[^"]*"', '', s)
RECURSIVE SubKeyValue(_, _)
SubKeyValue(s, i) ==
  LET starts == {j \in i..Len(s) : KeyValueEnd(s, j) # 0}
  IN IF starts = {} THEN SubSeq(s, i, Len(s))
     ELSE SubSeq(s, i, Min(starts) - 1)
          \o SubKeyValue(s, KeyValueEnd(s, Min(starts)) + 1)

\* end of the match of r'\n\s*\n\s*\n' that starts at i, 0 if none: the
\* last line break of the whitespace run, when the run holds three or more.
BlankLinesEnd(s, i) ==
  IF s[i] # "\n" THEN 0
  ELSE LET e == WsRunEnd(s, i)
           nl == {p \in i..e : s[p] = "\n"}
       IN IF Cardinality(nl) >= 3 THEN Max(nl) ELSE 0

\* re.sub(r'\n\s*\n\s*\n', '\n\n', s)
RECURSIVE SubBlankLines(_, _)
SubBlankLines(s, i) ==
  LET starts == {j \in i..Len(s) : BlankLinesEnd(s, j) # 0}
  IN IF starts = {} THEN SubSeq(s, i, Len(s))
     ELSE SubSeq(s, i, Min(starts) - 1) \o <<"\n", "\n">>
          \o SubBlankLines(s, BlankLinesEnd(s, Min(starts)) + 1)

\* end of the match of r'^\s+|\s+$' (re.MULTILINE) that starts at i, 0 if
\* none.  ^ holds at the start of the text and after a line break; $ holds
\* at the end of the text and before a line break.
MarginEnd(s, i) ==
  IF ~IsSpace(s[i]) THEN 0
  ELSE LET e == WsRunEnd(s, i)
           atEol == {p \in i..(e - 1) : s[p + 1] = "\n"}
       IN IF i = 1 \/ s[i - 1] = "\n" THEN e
          ELSE IF e = Len(s) THEN e
          ELSE IF atEol # {} THEN Max(atEol)
          ELSE 0

\* re.sub(r'^\s+|\s+$', '', s, flags=re.MULTILINE)
RECURSIVE SubMargins(_, _)
SubMargins(s, i) ==
  LET starts == {j \in i..Len(s) : MarginEnd(s, j) # 0}
  IN IF starts = {} THEN SubSeq(s, i, Len(s))
     ELSE SubSeq(s, i, Min(starts) - 1)
          \o SubMargins(s, MarginEnd(s, Min(starts)) + 1)

(***************************************************************************)
(* AlleAIService._clean_response                                           *)
(***************************************************************************)

\* the lines of one nested dict value:  "  - {Subkey Title}: {subval}"
RECURSIVE SubItemLines(_)
SubItemLines(items) ==
  IF Len(items) = 0 THEN <<>>
  ELSE << <<" ", " ", "-", " ">> \o Title(items[1].k) \o <<":", " ">>
          \o py_str(items[1].x) >> \o SubItemLines(Tail(items))

\* the lines of one list value:  "  - {item}"
RECURSIVE ListItemLines(_)
ListItemLines(items) ==
  IF Len(items) = 0 THEN <<>>
  ELSE << <<" ", " ", "-", " ">> \o py_str(items[1]) >> \o ListItemLines(Tail(items))

\* the lines rendered for the items of the top-level dict
RECURSIVE FormatLines(_)
FormatLines(items) ==
  IF Len(items) = 0 THEN <<>>
  ELSE LET pretty_key == Title(items[1].k)
           value == items[1].x
           head ==
             CASE value.t = "dict" ->
                    << <<"**">> \o pretty_key \o <<":", "**">> >>
                    \o SubItemLines(value.v)
               [] value.t = "list" ->
                    << <<"**">> \o pretty_key \o <<":", "**">> >>
                    \o ListItemLines(value.v)
               [] OTHER ->
                    << <<"**">> \o pretty_key \o <<":", "**", " ">> \o py_str(value) >>
       IN head \o FormatLines(Tail(items))

\* lines 377-386: the plain-text clean-up
StripArtifacts(text) ==
  LET t1 == SubDelimited(text, 1, "{", "}")
      t2 == SubDelimited(t1, 1, "[", "]")
      t3 == SubKeyValue(t2, 1)
      t4 == SubBlankLines(t3, 1)
      t5 == SubMargins(t4, 1)
  IN IF Len(t5) > 0 /\ IsLower(t5[1]) THEN <<Upper(t5[1])>> \o Tail(t5) ELSE t5

\* the code-fence marker (three backquotes), one token
FENCE == "FENCE"

clean_response(text0) ==
  IF Len(text0) = 0 THEN <<>>
  ELSE LET t1 == Strip(text0)
           text == Strip(Replace(Replace(t1, <<FENCE, "json">>, <<>>), <<FENCE>>, <<>>))
           data == json_loads(text)
       IN IF StartsWith(text, "{") /\ EndsWith(text, "}") /\ data.ok /\ IsDict(data.val)
          THEN JoinLines(FormatLines(data.val.v))
          ELSE StripArtifacts(text)

(***************************************************************************)
(* Messages, prompts and the Fallback Responder                            *)
(***************************************************************************)

Msg(role, content) == [role |-> role, content |-> content]

\* AlleAIService._get_agricultural_system_prompt (abridged to its first
\* sentence and the closing instruction)
get_agricultural_system_prompt ==
  <<"You", " ", "are", " ", "an", " ", "expert", " ", "agricultural", " ",
    "AI", " ", "assistant", " ", "specializing", " ", "in", " ", "crop", " ",
    "disease", " ", "management", ".", "\n", "\n",
    "Always", " ", "return", " ", "plain", " ", "text", " ", "responses">>

\* f"{confidence:.1%}"
Percent(confidence) ==
  CASE confidence = "0.9" -> <<"90.0%">>
    [] confidence = "0.5" -> <<"50.0%">>
    [] OTHER -> <<confidence, "%">>

\* AlleAIService._get_disease_analysis_prompt (the request lines in full,
\* the JSON skeleton abridged to one token)
get_disease_analysis_prompt(disease_name, confidence, crop_type) ==
  <<"You", " ", "are", " ", "an", " ", "expert", " ", "agricultural", " ",
    "scientist", " ", "specializing", " ", "in", " ", "crop", " ", "disease",
    " ", "management", ".", "\n", "\n", "-", " ", "Disease", ":", " ">>
  \o disease_name
  \o <<"\n", "-", " ", "Confidence", " ", "Level", ":", " ">> \o Percent(confidence)
  \o <<"\n", "-", " ", "Crop", " ", "Type", ":", " ">> \o crop_type
  \o <<"\n", "\n", "Respond ONLY with the JSON object", "\n">>

\* the canned answers of _get_fallback_response, one token each
FB_DISEASE == <<"I understand you're dealing with plant health issues.">>
FB_SOIL == <<"Soil health is crucial for plant growth!">>
FB_WATER == <<"Proper watering is essential for plant health!">>
FB_PEST == <<"Pest management can be challenging!">>
FB_TREATMENT == <<"For plant treatment, here's a systematic approach:">>
FB_PREVENT == <<"Prevention is always better than cure!">>
FB_ORGANIC == <<"Organic solutions are great for sustainable farming!">>
FB_GENERIC == <<"I'm here to help with your agricultural questions!">>

\* a chain that tests the pest keywords before the disease keywords
fallback_response_pest_first(user_message) ==
  LET message_lower == Lower(user_message)
      has(w) == Contains(<<w>>, message_lower)
  IN IF has("pest") \/ has("insect") \/ has("bug") THEN FB_PEST
     ELSE IF has("disease") \/ has("sick") \/ has("problem") THEN FB_DISEASE
     ELSE IF has("soil") \/ has("fertilizer") \/ has("nutrient") THEN FB_SOIL
     ELSE IF has("water") \/ has("irrigation") THEN FB_WATER
     ELSE IF has("treatment") \/ has("cure") \/ has("fix") THEN FB_TREATMENT
     ELSE IF has("prevent") \/ has("avoid") THEN FB_PREVENT
     ELSE IF has("organic") \/ has("natural") THEN FB_ORGANIC
     ELSE FB_GENERIC

\* AlleAIService._get_fallback_response
get_fallback_response(user_message) ==
  LET message_lower == Lower(user_message)
      has(w) == Contains(<<w>>, message_lower)
  IN IF has("disease") \/ has("sick") \/ has("problem") THEN FB_DISEASE
     ELSE IF has("soil") \/ has("fertilizer") \/ has("nutrient") THEN FB_SOIL
     ELSE IF has("water") \/ has("irrigation") THEN FB_WATER
     ELSE IF has("pest") \/ has("insect") \/ has("bug") THEN FB_PEST
     ELSE IF has("treatment") \/ has("cure") \/ has("fix") THEN FB_TREATMENT
     ELSE IF has("prevent") \/ has("avoid") THEN FB_PREVENT
     ELSE IF has("organic") \/ has("natural") THEN FB_ORGANIC
     ELSE FB_GENERIC

\* a reading of the loop that stops at the first user-role content
FirstUserText(messages) ==
  LET users == {i \in 1..Len(messages) : messages[i].role = "user"}
  IN IF users = {} THEN <<>>
     ELSE messages[Min(users)].content

\* the loop `for msg in reversed(messages): if msg["role"] == "user": ...`
\* of _make_alleai_request: the last user-role content, "" if there is none
LastUserText(messages) ==
  LET users == {i \in 1..Len(messages) : messages[i].role = "user"}
  IN IF users = {} THEN <<>>
     ELSE messages[Max(users)].content

(***************************************************************************)
(* The structured fallback Recommendation                                  *)
(***************************************************************************)

F_OVERVIEW == <<"disease", "_", "overview">>
F_ACTIONS == <<"immediate", "_", "actions">>
F_PROTOCOLS == <<"treatment", "_", "protocols">>
F_PREVENTION == <<"prevent", "ion">>
F_MONITORING == <<"monitoring">>
F_COST == <<"cost", "_", "effective">>
F_SEVERITY == <<"severity", "_", "level">>
F_HELP == <<"professional", "_", "help">>

\* required_fields of get_disease_recommendations
required_fields ==
  <<F_OVERVIEW, F_ACTIONS, F_PROTOCOLS, F_PREVENTION, F_MONITORING, F_COST,
    F_SEVERITY, F_HELP>>

\* one template: the overview is the only field built from the arguments
Template(overview, tag, severity) ==
  PyDict(<<
    Item(F_OVERVIEW, PyStr(overview)),
    Item(F_ACTIONS, PyStr(<<tag, " ", "immediate actions">>)),
    Item(F_PROTOCOLS, PyDict(<<
       Item(<<"organic">>, PyStr(<<tag, " ", "organic treatment">>)),
       Item(<<"chemical">>, PyStr(<<tag, " ", "chemical treatment">>)),
       Item(<<"application">>, PyStr(<<tag, " ", "application advice">>)) >>)),
    Item(F_PREVENTION, PyStr(<<tag, " ", "prevention advice">>)),
    Item(F_MONITORING, PyStr(<<tag, " ", "monitoring advice">>)),
    Item(F_COST, PyStr(<<tag, " ", "cost-effective advice">>)),
    Item(F_SEVERITY, PyStr(<<severity>>)),
    Item(F_HELP, PyStr(<<tag, " ", "professional-help threshold">>)) >>)

CashewLeafminerTemplate(disease_name) ==
  Template(disease_name \o <<" ", "is a serious pest that affects cashew trees">>,
           "cashew-leafminer", "High")

LeafMinerTemplate(disease_name) ==
  Template(disease_name \o <<" ", "is a leaf-mining pest">>, "leaf-miner", "Moderate")

\* a generic template that leaves the crop category out
GenericTemplateWithoutCrop(disease_name, crop_type) ==
  Template(<<"General information about", " ">> \o disease_name \o <<" ", "plants.">>,
           "generic", "Moderate")

GenericTemplate(disease_name, crop_type) ==
  Template(<<"General information about", " ">> \o disease_name
           \o <<" ", "affecting", " ">> \o crop_type \o <<" ", "plants.">>,
           "generic", "Moderate")

\* the same rules with the leaf-and-miner rule tried first
leaf_miner_rule_first(disease_name, confidence, crop_type) ==
  IF Contains(<<"leaf">>, Lower(disease_name))
     /\ Contains(<<"miner">>, Lower(disease_name))
  THEN LeafMinerTemplate(disease_name)
  ELSE IF Contains(<<"cashew", "_", "leaf", "miner">>, Lower(disease_name))
       THEN CashewLeafminerTemplate(disease_name)
       ELSE GenericTemplate(disease_name, crop_type)

\* AlleAIService._get_structured_fallback_recommendations
get_structured_fallback_recommendations(disease_name, confidence, crop_type) ==
  IF Contains(<<"cashew", "_", "leaf", "miner">>, Lower(disease_name))
  THEN CashewLeafminerTemplate(disease_name)
  ELSE IF Contains(<<"leaf">>, Lower(disease_name))
          /\ Contains(<<"miner">>, Lower(disease_name))
       THEN LeafMinerTemplate(disease_name)
       ELSE GenericTemplate(disease_name, crop_type)

(***************************************************************************)
(* The provider call: Request Builder, Transport Client, Extractor         *)
(* (AlleAIService._make_alleai_request)                                    *)
(***************************************************************************)

\* lines 196-210: the system contents, then the user and assistant contents
RECURSIVE SystemContent(_), UserContent(_)
SystemContent(messages) ==
  IF Len(messages) = 0 THEN <<>>
  ELSE (IF messages[1].role = "system"
        THEN messages[1].content \o <<"\n", "\n">> ELSE <<>>)
       \o SystemContent(Tail(messages))

RECURSIVE UserContentNewestFirst(_)
\* a loop that walks the turns newest first
UserContentNewestFirst(messages) ==
  IF Len(messages) = 0 THEN <<>>
  ELSE UserContentNewestFirst(Tail(messages))
       \o (CASE messages[1].role = "user" -> messages[1].content \o <<"\n">>
             [] messages[1].role = "assistant" ->
                  <<"Previous", " ", "response", ":", " ">> \o messages[1].content
                  \o <<"\n">>
             [] OTHER -> <<>>)

UserContent(messages) ==
  IF Len(messages) = 0 THEN <<>>
  ELSE (CASE messages[1].role = "user" -> messages[1].content \o <<"\n">>
          [] messages[1].role = "assistant" ->
               <<"Previous", " ", "response", ":", " ">> \o messages[1].content \o <<"\n">>
          [] OTHER -> <<>>)
       \o UserContent(Tail(messages))

\* lines 210-219: the text of the single aggregated user turn
final_user_content(messages) == Strip(SystemContent(messages) \o UserContent(messages))

\* lines 194, 212-219: the `messages` of the payload, one aggregated user turn
alleai_messages(messages) ==
  << [user |-> << [type |-> "text", text |-> final_user_content(messages)] >>] >>

\* bool(x)
Truthy(x) ==
  CASE x.t = "str" -> x.v # <<>>
    [] x.t = "num" -> x.v # <<"0">>
    [] x.t = "lit" -> x.v = <<"true">>
    [] OTHER -> x.v # <<>>

\* d.get(key)
DictGet(d, k) == IF HasKey(d, k) THEN Get(d, k) ELSE PyNone

Extracted(content) == [raises |-> FALSE, content |-> content]
ExtractRaises == [raises |-> TRUE, content |-> PyNone]

\* an Extractor that does not probe the nested provider shape
NoNestedContent(response_data) == PyNone

\* lines 286-296: the nested provider shape; None if it yields nothing
NestedContent(response_data) ==
  IF IsDict(response_data) /\ HasKey(response_data, <<"responses">>)
  THEN LET responses_obj == Get(response_data, <<"responses">>)
       IN IF IsDict(responses_obj) /\ HasKey(responses_obj, <<"responses">>)
          THEN LET model_responses == Get(responses_obj, <<"responses">>)
                   good == {i \in 1..(IF IsDict(model_responses) THEN Len(model_responses.v) ELSE 0) :
                              /\ IsStr(model_responses.v[i].x)
                              /\ Strip(model_responses.v[i].x.v) # <<>>}
               IN IF good = {} THEN PyNone
                  ELSE model_responses.v[Min(good)].x
          ELSE PyNone
  ELSE PyNone

\* line 302: response_data["choices"][0]["message"]["content"]
ChoicesContent(choices) ==
  IF choices.t = "list" /\ IsDict(choices.v[1])
     /\ HasKey(choices.v[1], <<"message">>)
     /\ IsDict(Get(choices.v[1], <<"message">>))
     /\ HasKey(Get(choices.v[1], <<"message">>), <<"content">>)
  THEN Extracted(Get(Get(choices.v[1], <<"message">>), <<"content">>))
  ELSE ExtractRaises

\* lines 281-314: the Response Extractor
ExtractContent(response_data) ==
  LET content == NestedContent(response_data)
  IN IF Truthy(content) THEN Extracted(content)
     ELSE IF ~IsDict(response_data) THEN ExtractRaises
     ELSE IF Truthy(DictGet(response_data, <<"choices">>))
          THEN ChoicesContent(Get(response_data, <<"choices">>))
     ELSE IF Truthy(DictGet(response_data, <<"message">>))
          THEN Extracted(Get(response_data, <<"message">>))
     ELSE IF Truthy(DictGet(response_data, <<"content">>))
          THEN Extracted(Get(response_data, <<"content">>))
     ELSE IF Truthy(DictGet(response_data, <<"response">>))
          THEN Extracted(Get(response_data, <<"response">>))
     ELSE IF Truthy(DictGet(response_data, <<"text">>))
          THEN Extracted(Get(response_data, <<"text">>))
     ELSE Extracted(content)

\* what the provider call hands to its caller
Returned(text) == [raised |-> FALSE, text |-> text]
Raised == [raised |-> TRUE, text |-> <<>>]

\* the three handlers that answer with the Fallback Responder (lines 252-260,
\* 324-332, 336-344)
FallbackFor(messages) == Returned(get_fallback_response(LastUserText(messages)))

\* lines 278-322: a success status
HandleSuccess(messages, outcome) ==
  IF ~outcome.decodes THEN Raised
  ELSE LET e == ExtractContent(outcome.data)
       IN IF e.raises \/ ~Truthy(e.content) \/ ~IsStr(e.content)
          THEN FallbackFor(messages)
          ELSE Returned(clean_response(e.content.v))

\* a provider call that lets a timeout escape to its caller
make_alleai_request_timeout_escapes(messages, outcome) ==
  CASE outcome.type = "timeout" -> Raised
    [] outcome.type = "client_error" -> FallbackFor(messages)
    [] outcome.type = "http" /\ outcome.status >= 400 -> FallbackFor(messages)
    [] OTHER -> HandleSuccess(messages, outcome)

\* lines 250-344: _make_alleai_request from the provider's answer on
make_alleai_request(messages, outcome) ==
  CASE outcome.type \in {"client_error", "timeout"} -> FallbackFor(messages)
    [] outcome.type = "http" /\ outcome.status = 402 -> FallbackFor(messages)
    [] outcome.type = "http" /\ outcome.status >= 400 /\ outcome.status # 402 ->
         FallbackFor(messages)
    [] OTHER -> HandleSuccess(messages, outcome)

(***************************************************************************)
(* The Recommendation Engine (AlleAIService.get_disease_recommendations)   *)
(***************************************************************************)

\* line 399: f"{disease_name}_{confidence}_{crop_type}"
cache_key(disease_name, confidence, crop_type) ==
  disease_name \o <<"_", confidence, "_">> \o crop_type

\* `for field in fields: if field not in recommendations:
\*      recommendations[field] = fallback[field]`  (lines 441-443, 465-467)
RECURSIVE Backfill(_, _, _)
Backfill(recommendations, fallback, fields) ==
  IF Len(fields) = 0 THEN recommendations
  ELSE Backfill(IF HasKey(recommendations, fields[1]) THEN recommendations
                ELSE DictSet(recommendations, fields[1], Get(fallback, fields[1])),
                fallback, Tail(fields))

\* re.search(r'\{[\s\S]*\}', s): from the first "{" to the last "}" after it
GreedyBraces(s) ==
  LET a == FindChar(s, 1, "{")
      closes == {i \in 1..Len(s) : s[i] = "}" /\ i > a}
  IN IF a = 0 \/ closes = {} THEN [found |-> FALSE, str |-> <<>>]
     ELSE [found |-> TRUE,
           str |-> SubSeq(s, a, Max(closes))]

\* what one invocation resolves to: the value returned, whether the cache
\* entry for the key is written, and the branch taken
Resolved(result, store, path) == [result |-> result, store |-> store, path |-> path]

\* lines 476-480 and 482-490: the full structured fallback, cached
FullFallback(fallback, path) == Resolved(fallback, TRUE, path)

\* lines 428-449: the direct parse succeeded
ResolveParsed(recommendations, fallback) ==
  LET missing_fields ==
        SelectSeq(required_fields, LAMBDA f : ~In(f, recommendations))
  IN IF InRaises(recommendations) THEN FullFallback(fallback, "except")
     ELSE IF missing_fields # <<>> /\ SetRaises(recommendations)
          THEN FullFallback(fallback, "except")
     ELSE IF missing_fields # <<>>
          THEN Resolved(Backfill(recommendations, fallback, missing_fields), TRUE, "parsed")
     ELSE Resolved(recommendations, TRUE, "parsed")

\* lines 451-480: the direct parse failed
ResolveUnparsed(response_content, fallback) ==
  LET match == GreedyBraces(response_content)
      second == json_loads(match.str)
  IN IF match.found /\ second.ok
     THEN Resolved(Backfill(second.val, fallback, required_fields), TRUE, "extracted")
     ELSE FullFallback(fallback, "parse_fallback")

\* lines 425-490: get_disease_recommendations once the provider call is over
ResolveRecommendation(response, disease_name, confidence, crop_type) ==
  LET fallback ==
        get_structured_fallback_recommendations(disease_name, confidence, crop_type)
      first == json_loads(response.text)
  IN IF response.raised THEN FullFallback(fallback, "except")
     ELSE IF first.ok THEN ResolveParsed(first.val, fallback)
     ELSE ResolveUnparsed(response.text, fallback)

(***************************************************************************)
(* Inputs: requests and provider answers                                   *)
(***************************************************************************)

\* number of invocations in one run
MaxCalls == 2

Calls == 1..MaxCalls

\* json.dumps, as the provider writes a JSON document
RECURSIVE json_dumps(_), DumpItems(_), DumpElems(_)
DumpItems(items) ==
  IF Len(items) = 0 THEN <<>>
  ELSE <<"\"">> \o items[1].k \o <<"\"", ":", " ">> \o json_dumps(items[1].x)
       \o (IF Len(items) > 1 THEN <<",", " ">> ELSE <<>>) \o DumpItems(Tail(items))
DumpElems(items) ==
  IF Len(items) = 0 THEN <<>>
  ELSE json_dumps(items[1])
       \o (IF Len(items) > 1 THEN <<",", " ">> ELSE <<>>) \o DumpElems(Tail(items))
json_dumps(x) ==
  CASE x.t = "str" -> <<"\"">> \o x.v \o <<"\"">>
    [] x.t = "list" -> <<"[">> \o DumpElems(x.v) \o <<"]">>
    [] x.t = "dict" -> <<"{">> \o DumpItems(x.v) \o <<"}">>
    [] OTHER -> x.v

\* the subjects, confidences and categories callers ask about
S_CASHEW == <<"cashew", "_", "leaf", "miner">>
S_CASHEW_UPPER == <<"Cashew", "_", "Leaf", "miner">>
S_LEAF_MINER == <<"tomato", "_", "leaf", "_", "miner">>
S_GENERIC == <<"maize", "_", "streak">>

Requests ==
  { [disease_name |-> S_CASHEW, confidence |-> "0.9", crop_type |-> <<"cashew">>],
    [disease_name |-> S_CASHEW_UPPER, confidence |-> "0.5", crop_type |-> <<"cashew">>],
    [disease_name |-> S_LEAF_MINER, confidence |-> "0.9", crop_type |-> <<"tomato">>],
    [disease_name |-> S_GENERIC, confidence |-> "0.9", crop_type |-> <<"maize">>],
    [disease_name |-> S_GENERIC, confidence |-> "0.5", crop_type |-> <<"maize">>] }

\* a request without a subject
MalformedRequests ==
  { [disease_name |-> <<>>, confidence |-> "0.9", crop_type |-> <<"maize">>] }

\* two requests whose subject or crop holds the separator of the cache key
SeparatorRequests ==
  { [disease_name |-> <<"maize", "_", "0.5">>, confidence |-> "0.9",
     crop_type |-> <<"maize">>],
    [disease_name |-> <<"maize">>, confidence |-> "0.5",
     crop_type |-> <<"0.9", "_", "maize">>] }

\* a complete Recommendation as the provider words it, and a partial one
ProviderRecommendation == Template(<<"provider overview">>, "provider", "Low")
PartialRecommendation ==
  PyDict(<<Item(F_SEVERITY, PyStr(<<"Low">>)),
           Item(F_OVERVIEW, PyStr(<<"provider overview">>))>>)

\* answer texts of the provider
T_COMPLETE == json_dumps(ProviderRecommendation)
T_FENCED == <<FENCE, "json", "\n">> \o T_COMPLETE \o <<"\n", FENCE>>
T_PARTIAL == json_dumps(PartialRecommendation)
T_PROSE_JSON ==
  <<"Sure", "!", " ">> \o json_dumps(PyDict(<<Item(<<"a">>, PyNum("1"))>>)) \o <<" ", "done">>
T_PLAIN == <<"hello", " ", "farmer">>
T_FIELD_NAMES ==
  <<"\"">> \o F_OVERVIEW \o <<" ">> \o F_ACTIONS \o <<" ">> \o F_PROTOCOLS \o <<" ">>
  \o F_PREVENTION \o <<" ">> \o F_MONITORING \o <<" ">> \o F_COST \o <<" ">>
  \o F_SEVERITY \o <<" ">> \o F_HELP \o <<"\"">>

T_OTHER == <<"other", " ", "text">>

\* the OpenAI-like shape: [{"message": {"content": content}}]
ChoicesPayload(content) ==
  PyList(<<PyDict(<<Item(<<"message">>, PyDict(<<Item(<<"content">>, content)>>))>>)>>)

\* the provider's documented shape: {"responses": {"responses": {model: text}}}
NestedPayload(text) ==
  PyDict(<<Item(<<"responses">>,
     PyDict(<<Item(<<"responses">>, PyDict(<<Item(<<"gpt-4o">>, PyStr(text))>>))>>))>>)

\* the bodies a provider sends, by name: the decoded JSON of a response of
\* the recommendation provider, or the message contents of the choices of a
\* chat completion
Payloads ==
  [ none |-> PyNone,
    empty_object |-> PyDict(<<>>),
    complete |-> NestedPayload(T_COMPLETE),
    fenced |-> NestedPayload(T_FENCED),
    partial |-> NestedPayload(T_PARTIAL),
    prose_json |-> NestedPayload(T_PROSE_JSON),
    plain |-> NestedPayload(T_PLAIN),
    field_names |-> NestedPayload(T_FIELD_NAMES),
    no_choices |-> PyList(<<>>),
    content_none |-> PyList(<<PyNone>>),
    content_empty |-> PyList(<<PyStr(<<>>)>>),
    content_plain |-> PyList(<<PyStr(T_PLAIN)>>),
    content_json |-> PyList(<<PyStr(T_PARTIAL)>>),
    nested_and_content |->
      PyDict(<<Item(<<"responses">>, Get(NestedPayload(T_PLAIN), <<"responses">>)),
               Item(<<"content">>, PyStr(T_OTHER))>>),
    content_and_nested |->
      PyDict(<<Item(<<"content">>, PyStr(T_OTHER)),
               Item(<<"responses">>, Get(NestedPayload(T_PLAIN), <<"responses">>))>>),
    blank_nested_and_choices |->
      PyDict(<<Item(<<"responses">>, Get(NestedPayload(<<" ">>), <<"responses">>)),
               Item(<<"choices">>, ChoicesPayload(PyStr(T_PLAIN)))>>),
    choices_and_message |->
      PyDict(<<Item(<<"message">>, PyStr(T_OTHER)),
               Item(<<"choices">>, ChoicesPayload(PyStr(T_PLAIN)))>>),
    empty_choice_and_content |->
      PyDict(<<Item(<<"choices">>, ChoicesPayload(PyStr(<<>>))),
               Item(<<"content">>, PyStr(T_PLAIN))>>),
    message_and_text |->
      PyDict(<<Item(<<"text">>, PyStr(T_OTHER)), Item(<<"message">>, PyStr(T_PLAIN))>>),
    empty_message_and_content |->
      PyDict(<<Item(<<"message">>, PyStr(<<>>)), Item(<<"content">>, PyStr(T_PLAIN)),
               Item(<<"response">>, PyStr(T_OTHER))>>),
    response_and_text |->
      PyDict(<<Item(<<"text">>, PyStr(T_OTHER)), Item(<<"response">>, PyStr(T_PLAIN))>>),
    text_only |-> PyDict(<<Item(<<"text">>, PyStr(T_PLAIN))>>),
    message_object |->
      PyDict(<<Item(<<"message">>, PyDict(<<Item(<<"role">>, PyStr(<<"assistant">>))>>))>>),
    all_empty |->
      PyDict(<<Item(<<"choices">>, PyList(<<>>)), Item(<<"message">>, PyStr(<<>>)),
               Item(<<"text">>, PyNone)>>) ]

\* how a request ended; `data` names the body
Outcome(type, status, decodes, data) ==
  [type |-> type, status |-> status, decodes |-> decodes, data |-> data]

\* the outcome with its body in place of the name
WithPayload(outcome) == [outcome EXCEPT !.data = Payloads[outcome.data]]

\* how one request to the recommendation provider can end
Outcomes ==
  { Outcome("client_error", 0, FALSE, "none"),
    Outcome("timeout", 0, FALSE, "none"),
    Outcome("http", 402, FALSE, "none"),
    Outcome("http", 500, FALSE, "none"),
    Outcome("http", 200, FALSE, "none"),
    Outcome("http", 200, TRUE, "empty_object") }
  \cup { Outcome("http", 200, TRUE, t) :
           t \in {"complete", "fenced", "partial", "prose_json", "plain", "field_names"} }

\* answers of the recommendation provider in the other shapes the Extractor
\* probes
ExtractorOutcomes ==
  { Outcome("http", 200, TRUE, t) :
      t \in {"nested_and_content", "content_and_nested", "blank_nested_and_choices",
             "choices_and_message", "empty_choice_and_content", "message_and_text",
             "empty_message_and_content", "response_and_text", "text_only",
             "message_object", "all_empty"} }

RequestOutcomes == Outcomes \cup ExtractorOutcomes

(***************************************************************************)
(* State                                                                   *)
(***************************************************************************)

VARIABLES
  api_key,             \* AlleAIService.api_key
  OPENROUTER_API_KEY,  \* the module constant read by is_available
  recommendations_cache,               \* AlleAIService._recommendations_cache
  calls                \* the invocations: position, arguments and outcome

vars == <<api_key, OPENROUTER_API_KEY, recommendations_cache, calls>>

IdleCall ==
  [kind |-> "none", pc |-> "idle",
   disease_name |-> <<>>, confidence |-> "", crop_type |-> <<>>,
   user_message |-> <<>>, messages |-> <<>>, outcome |-> Outcome("none", 0, FALSE, "none"),
   alleai_messages |-> <<>>, content |-> PyNone,
   result |-> PyNone, raised |-> FALSE, net |-> 0, hit |-> FALSE, path |-> "none"]

\* lines 17-39: __init__, for the values settings.ALLEAI_API_KEY (line 19) and
\* OPENROUTER_API_KEY (line 12) are deployed with: empty or set
Init ==
  /\ api_key \in {Strip(k) : k \in { <<>>, <<"alle-key">> }}
  /\ OPENROUTER_API_KEY \in { <<>>, <<"sk-or-key">> }
  /\ recommendations_cache = <<>>
  /\ calls = [c \in Calls |-> IdleCall]

\* lines 41-46
is_available == OPENROUTER_API_KEY # <<>>

\* lines 53-58
get_cache_stats == [cache_size |-> Cardinality(DOMAIN recommendations_cache), cached_keys |-> DOMAIN recommendations_cache]

\* invocations are numbered in the order they start
MayStart(c) ==
  calls[c].pc = "idle" /\ (IF c = 1 THEN TRUE ELSE calls[c - 1].pc # "idle")

\* a store that keeps the entry a key already has
CachePutIfAbsent(key, value) ==
  [k \in DOMAIN recommendations_cache \cup {key} |->
     IF k \in DOMAIN recommendations_cache THEN recommendations_cache[k] ELSE value]

\* self._recommendations_cache[key] = value
CachePut(key, value) ==
  [k \in DOMAIN recommendations_cache \cup {key} |-> IF k = key THEN value ELSE recommendations_cache[k]]

\* a lookup that never finds an entry
CacheMiss(key) == FALSE

\* line 402: cache_key in self._recommendations_cache
CacheHit(key) == key \in DOMAIN recommendations_cache

\* the call returns `out.result`; the cache is written when out.store
Finish(c, call, out) ==
  /\ calls' = [calls EXCEPT ![c] =
        [call EXCEPT !.pc = "done", !.result = out.result, !.path = out.path]]
  /\ recommendations_cache' = IF out.store
              THEN CachePut(cache_key(call.disease_name, call.confidence, call.crop_type),
                            out.result)
              ELSE recommendations_cache

\* lines 393-396: the provider is not available
Unavailable(disease_name, confidence, crop_type) ==
  Resolved(get_structured_fallback_recommendations(disease_name, confidence, crop_type),
           FALSE, "unavailable")

\* lines 388-418 and 182-248: get_disease_recommendations up to the await
RecStart(c, req) ==
  LET key == cache_key(req.disease_name, req.confidence, req.crop_type)
      call == [calls[c] EXCEPT !.kind = "rec",
                 !.disease_name = req.disease_name, !.confidence = req.confidence,
                 !.crop_type = req.crop_type]
  IN /\ MayStart(c)
     /\ UNCHANGED <<api_key, OPENROUTER_API_KEY>>
     /\ IF ~is_available
        THEN Finish(c, call, Unavailable(req.disease_name, req.confidence, req.crop_type))
        ELSE IF CacheHit(key)
        THEN Finish(c, [call EXCEPT !.hit = TRUE], Resolved(recommendations_cache[key], FALSE, "cached"))
        ELSE IF api_key = <<>>
        THEN Finish(c, call,
               ResolveRecommendation(Raised, req.disease_name, req.confidence, req.crop_type))
        ELSE /\ calls' = [calls EXCEPT ![c] = [call EXCEPT !.pc = "await", !.net = 1]]
             /\ UNCHANGED recommendations_cache

\* lines 250-344 and 425-490 for every request and provider answer: what the
\* invocation resolves to
AfterAwait ==
  [req \in Requests \cup MalformedRequests \cup SeparatorRequests, outcome \in Outcomes |->
     LET prompt == get_disease_analysis_prompt(req.disease_name, req.confidence,
                                               req.crop_type)
         response_content ==
           make_alleai_request(<<Msg("user", prompt)>>, WithPayload(outcome))
     IN ResolveRecommendation(response_content, req.disease_name, req.confidence,
                              req.crop_type)]

\* a provider call that is sent a second time after a timeout
RecResumeRetriesTimeout(c, outcome) ==
  LET call == calls[c]
      req == [disease_name |-> call.disease_name, confidence |-> call.confidence,
              crop_type |-> call.crop_type]
  IN /\ call.kind = "rec" /\ call.pc = "await"
     /\ UNCHANGED <<api_key, OPENROUTER_API_KEY>>
     /\ IF outcome.type = "timeout" /\ call.net = 1
        THEN /\ calls' = [calls EXCEPT ![c] = [call EXCEPT !.net = 2]]
             /\ UNCHANGED recommendations_cache
        ELSE Finish(c, [call EXCEPT !.outcome = outcome], AfterAwait[req, outcome])

\* lines 250-344 and 425-490: the provider has answered
RecResume(c, outcome) ==
  LET call == calls[c]
      req == [disease_name |-> call.disease_name, confidence |-> call.confidence,
              crop_type |-> call.crop_type]
  IN /\ call.kind = "rec" /\ call.pc = "await"
     /\ UNCHANGED <<api_key, OPENROUTER_API_KEY>>
     /\ Finish(c, [call EXCEPT !.outcome = outcome], AfterAwait[req, outcome])

\* lines 48-51
clear_cache ==
  /\ recommendations_cache' = <<>>
  /\ UNCHANGED <<api_key, OPENROUTER_API_KEY, calls>>

Next ==
  \/ \E c \in Calls, req \in Requests : RecStart(c, req)
  \/ \E c \in Calls, outcome \in Outcomes : RecResume(c, outcome)
  \/ clear_cache

Spec == Init /\ [][Next]_vars

(***************************************************************************)
(* The Chat Orchestrator (AlleAIService.chat_with_ai) and direct provider  *)
(* calls (AlleAIService._make_alleai_request)                              *)
(***************************************************************************)

\* what callers say
M_PESTS == <<"Tell", " ", "me", " ", "about", " ", "pest", "s">>
M_BOTH == <<"Pest", "s", " ", "and", " ", "disease">>
UserMessages == { M_PESTS, M_BOTH, <<"hello">> }

\* prompts posted to /ai/chat: every keyword group of the Fallback Responder
\* wins for one of them
ChatPrompts ==
  UserMessages
  \cup { <<"nutrient", " ", "and", " ", "irrigation">>,
         <<"Water", " ", "the", " ", "bug">>,
         <<"insect", " ", "cure">>,
         <<"fix", " ", "or", " ", "avoid">>,
         <<"Prevent", " ", "natural">>,
         <<"Organic">> }

Histories ==
  { <<>>,
    <<Msg("user", <<"my", " ", "soil", " ", "is", " ", "dry">>),
      Msg("assistant", <<"add", " ", "water">>)>> }

\* how one chat completion request can end: the OpenAI client raises, or it
\* returns a completion whose choices carry these message contents
ChatOutcomes ==
  { Outcome("client_error", 0, FALSE, "none"),
    Outcome("timeout", 0, FALSE, "none"),
    Outcome("http", 402, FALSE, "none"),
    Outcome("http", 500, FALSE, "none") }
  \cup { Outcome("completion", 200, TRUE, t) :
           t \in {"no_choices", "content_none", "content_empty", "content_plain",
                  "content_json"} }

\* lines 553-564: system prompt, conversation history, user message
ChatMessages(user_message, conversation_history) ==
  <<Msg("system", get_agricultural_system_prompt)>> \o conversation_history
  \o <<Msg("user", user_message)>>

\* lines 566-585: chat_with_ai once the completion call is over
chat_with_ai(user_message, outcome) ==
  IF outcome.type = "completion" /\ Len(outcome.data.v) > 0
  THEN outcome.data.v[1]
  ELSE PyStr(get_fallback_response(user_message))

\* lines 542-579: chat_with_ai up to the await
ChatStart(c, user_message, conversation_history) ==
  /\ MayStart(c)
  /\ calls' = [calls EXCEPT ![c] =
        [@ EXCEPT !.kind = "chat", !.pc = "await", !.net = 1,
                  !.user_message = user_message,
                  !.messages = ChatMessages(user_message, conversation_history)]]
  /\ UNCHANGED <<api_key, OPENROUTER_API_KEY, recommendations_cache>>

\* lines 580-585: the completion call is over
ChatResume(c, outcome) ==
  /\ calls[c].kind = "chat" /\ calls[c].pc = "await"
  /\ calls' = [calls EXCEPT ![c] =
        [@ EXCEPT !.pc = "done", !.outcome = outcome,
                  !.result = chat_with_ai(calls[c].user_message, WithPayload(outcome))]]
  /\ UNCHANGED <<api_key, OPENROUTER_API_KEY, recommendations_cache>>

\* message lists handed to the provider call
RequestMessages ==
  { <<Msg("system", <<"about", " ", "disease">>), Msg("user", <<"my", " ", "soil">>),
      Msg("assistant", <<"add", " ", "water">>), Msg("user", M_PESTS)>>,
    <<Msg("user", <<"too", " ", "much", " ", "water">>), Msg("assistant", M_PESTS)>>,
    <<Msg("system", <<"about", " ", "disease">>), Msg("assistant", <<"add", " ", "water">>)>>,
    <<Msg("user", <<" ", "my", " ", "soil">>), Msg("system", <<"about", " ", "disease">>),
      Msg("tool", <<"rain">>), Msg("user", <<"hello", " ">>)>>,
    <<>> }

\* lines 180-248: _make_alleai_request up to the await
RequestStart(c, messages) ==
  /\ MayStart(c)
  /\ calls' = [calls EXCEPT ![c] =
        IF api_key = <<>>
        THEN [@ EXCEPT !.kind = "request", !.pc = "done", !.messages = messages,
                       !.raised = TRUE]
        ELSE [@ EXCEPT !.kind = "request", !.pc = "await", !.messages = messages,
                       !.alleai_messages = alleai_messages(messages), !.net = 1]]
  /\ UNCHANGED <<api_key, OPENROUTER_API_KEY, recommendations_cache>>

\* lines 67-69: the probe of test_connection
test_messages ==
  <<Msg("user", <<"Hello", ",", " ", "this", " ", "is", " ", "a", " ", "test", " ",
                  "message", ".">>)>>

\* lines 250-344 for every message list and provider answer
ProviderCall ==
  [messages \in RequestMessages \cup {test_messages}, outcome \in RequestOutcomes |->
     make_alleai_request(messages, WithPayload(outcome))]

\* lines 281-319 for every provider answer: the `content` the Extractor ends
\* with, None when line 319 is not passed
Extraction ==
  [outcome \in RequestOutcomes |->
     IF outcome.type = "http" /\ outcome.status = 200 /\ outcome.decodes
     THEN LET e == ExtractContent(Payloads[outcome.data])
          IN IF e.raises \/ ~Truthy(e.content) THEN PyNone ELSE e.content
     ELSE PyNone]

\* lines 250-344: the provider has answered
RequestResume(c, outcome) ==
  LET response == ProviderCall[calls[c].messages, outcome]
  IN /\ calls[c].kind = "request" /\ calls[c].pc = "await"
     /\ calls' = [calls EXCEPT ![c] =
           [@ EXCEPT !.pc = "done", !.outcome = outcome,
                     !.content = Extraction[outcome],
                     !.raised = response.raised, !.result = PyStr(response.text)]]
     /\ UNCHANGED <<api_key, OPENROUTER_API_KEY, recommendations_cache>>

\* Python's True and False
PyTrue == PyLit("true")
PyFalse == PyLit("false")

\* lines 64-76 and 182-248: test_connection up to the await; without an API
\* key line 184 raises and line 82 returns False
TestStart(c) ==
  /\ MayStart(c)
  /\ calls' = [calls EXCEPT ![c] =
        IF api_key = <<>>
        THEN [@ EXCEPT !.kind = "test", !.pc = "done", !.messages = test_messages,
                       !.result = PyFalse]
        ELSE [@ EXCEPT !.kind = "test", !.pc = "await", !.messages = test_messages,
                       !.alleai_messages = alleai_messages(test_messages),
                       !.net = 1]]
  /\ UNCHANGED <<api_key, OPENROUTER_API_KEY, recommendations_cache>>

\* lines 71-82: True when the provider call returned, False when it raised
test_connection(response) == IF response.raised THEN PyFalse ELSE PyTrue

\* lines 250-344 and 78-82: the provider has answered the probe
TestResume(c, outcome) ==
  /\ calls[c].kind = "test" /\ calls[c].pc = "await"
  /\ calls' = [calls EXCEPT ![c] =
        [@ EXCEPT !.pc = "done", !.outcome = outcome,
                  !.content = Extraction[outcome],
                  !.result = test_connection(ProviderCall[test_messages, outcome])]]
  /\ UNCHANGED <<api_key, OPENROUTER_API_KEY, recommendations_cache>>

\* number of chat and provider calls in one run: they share no state
MaxGatewayCalls == 1

GatewayCalls == 1..MaxGatewayCalls

GatewayNext ==
  \/ \E c \in GatewayCalls, m \in UserMessages, h \in Histories : ChatStart(c, m, h)
  \/ \E c \in GatewayCalls, outcome \in ChatOutcomes : ChatResume(c, outcome)
  \/ \E c \in GatewayCalls, messages \in RequestMessages : RequestStart(c, messages)
  \/ \E c \in GatewayCalls, outcome \in RequestOutcomes : RequestResume(c, outcome)
  \/ \E c \in GatewayCalls : TestStart(c)
  \/ \E c \in GatewayCalls, outcome \in RequestOutcomes : TestResume(c, outcome)

GatewaySpec == Init /\ [][GatewayNext]_vars

\* the Recommendation Engine called with well-formed and malformed requests
InputNext ==
  \/ \E c \in GatewayCalls, req \in Requests \cup MalformedRequests : RecStart(c, req)
  \/ \E c \in GatewayCalls, outcome \in Outcomes : RecResume(c, outcome)
  \/ clear_cache

InputSpec == Init /\ [][InputNext]_vars

\* the Recommendation Engine called with requests that hold the separator
SeparatorNext ==
  \/ \E c \in Calls, req \in SeparatorRequests : RecStart(c, req)
  \/ \E c \in Calls, outcome \in Outcomes : RecResume(c, outcome)
  \/ clear_cache

SeparatorSpec == Init /\ [][SeparatorNext]_vars

(***************************************************************************)
(* The /ai routes (routes/ai_router.py)                                    *)
(***************************************************************************)

\* str.split(sep)
RECURSIVE Split(_, _)
Split(s, sep) ==
  LET at == {i \in 1..Len(s) : s[i] = sep}
  IN IF at = {} THEN <<s>>
     ELSE <<SubSeq(s, 1, Min(at) - 1)>> \o Split(SubSeq(s, Min(at) + 1, Len(s)), sep)

\* float(text) followed by the f-string of line 399 of the service: the
\* numerals of the prompts and the text the cache key gets for them
FloatTable == { <<"0.9", "0.9">>, <<"0.5", "0.5">>, <<"0.90", "0.9">> }

\* float(text)
py_float(text) == (CHOOSE p \in FloatTable : <<p[1]>> = text)[2]

\* exceptions raised inside the try block of a handler
HTTPException(status_code) == [type |-> "HTTPException", status_code |-> status_code]

\* `except Exception as e: ... raise HTTPException(status_code=500, ...)` at
\* the end of every handler: HTTPException derives from Exception, so the
\* clause catches the handler's own HTTPExceptions as well
except_Exception(e) == HTTPException("500")

\* `e` is raised inside the try block: the handler answers with what its
\* except clause raises (`content` keeps the status code of `e`)
RaisedInTry(c, route, prompt, e) ==
  /\ calls' = [calls EXCEPT ![c] =
        [@ EXCEPT !.kind = "route", !.pc = "done", !.path = route,
                  !.user_message = prompt, !.raised = TRUE,
                  !.content = IF e.type = "HTTPException" THEN PyNum(e.status_code)
                              ELSE PyNone,
                  !.result = PyNum(except_Exception(e).status_code)]]
  /\ UNCHANGED <<api_key, OPENROUTER_API_KEY, recommendations_cache>>

\* lines 196-231: POST /ai/disease-analysis up to the await of the service
disease_analysis(c, prompt) ==
  LET parts == Split(prompt, "|")
  IN /\ MayStart(c)
     /\ IF ~is_available
        THEN RaisedInTry(c, "disease-analysis", prompt, HTTPException("503"))
        ELSE IF Len(parts) >= 3
        THEN IF ~\E p \in FloatTable : <<p[1]>> = Strip(parts[2])
             THEN RaisedInTry(c, "disease-analysis", prompt,
                              [type |-> "ValueError", status_code |-> "none"])
             ELSE RecStart(c, [disease_name |-> Strip(parts[1]),
                               confidence |-> py_float(Strip(parts[2])),
                               crop_type |-> Strip(parts[3])])
        ELSE RaisedInTry(c, "disease-analysis", prompt, HTTPException("400"))

\* lines 173-194: POST /ai/chat up to the await of the service
ai_chat(c, prompt) ==
  /\ MayStart(c)
  /\ IF ~is_available
     THEN RaisedInTry(c, "chat", prompt, HTTPException("503"))
     ELSE ChatStart(c, prompt, <<>>)

\* prompts posted to /ai/disease-analysis: three parts, three parts with
\* blanks and a fourth part, two parts, one part, a confidence that is not a
\* number, the empty prompt

DiseasePrompts ==
  { S_GENERIC \o <<"|", "0.9", "|", "maize">>,
    <<" ">> \o S_GENERIC \o <<" ", "|", " ", "0.90", "|", "maize", " ", "|", "x">>,
    S_GENERIC \o <<"|", "0.5", "|", "maize">>,
    S_CASHEW \o <<"|", "0.9", "|", "cashew">>,
    S_GENERIC \o <<"|", "0.9">>,
    S_GENERIC,
    S_GENERIC \o <<"|", "high", "|", "maize">>,
    <<>> }

RouteNext ==
  \/ \E c \in GatewayCalls, prompt \in DiseasePrompts : disease_analysis(c, prompt)
  \/ \E c \in GatewayCalls, outcome \in Outcomes : RecResume(c, outcome)
  \/ \E c \in GatewayCalls, prompt \in ChatPrompts : ai_chat(c, prompt)
  \/ \E c \in GatewayCalls, outcome \in ChatOutcomes : ChatResume(c, outcome)

RouteSpec == Init /\ [][RouteNext]_vars

(***************************************************************************)
(* The Response Sanitizer applied to texts and to its own output           *)
(***************************************************************************)

\* texts handed to the Response Sanitizer: JSON objects whose values hold
\* braces, brackets, a list or an object, prose with matched, unmatched and
\* nested delimiters, a quoted key:value pair, blank lines, blank and empty
\* text, and answer texts of the provider

SanitizerTexts ==
  { <<"{", "\"", "a", "\"", ":", " ", "\"", "{", "x", "}", "\"", "}">>,
    <<"{", "\"", "a", "\"", ":", " ", "\"", "[", "x", "]", "\"", "}">>,
    <<"{", "\"", "a", "\"", ":", " ", "[", "\"", "b", "\"", "]", "}">>,
    <<"{", "\"", "a", "\"", ":", " ", "{", "\"", "b", "\"", ":", " ", "1", "}", "}">>,
    <<"x", " ", "{", "a", "}", " ", "y">>,
    <<"a", " ", "}", " ", "b", " ", "{", " ", "x">>,
    <<"{", " ", "{", "a", "}", " ", "}">>,
    <<"x", " ", "[", "a", " ", "[", "b", "]", " ", "y", "]">>,
    <<"x", " ", "\"", "a", "\"", ":", " ", "\"", "b", "\"", " ", "y">>,
    <<"a", "\n", "\n", "\n", "\n", " ", "b", "\n">>,
    <<" ", "\n">>,
    <<>>, T_PARTIAL, T_FENCED, T_PROSE_JSON, T_PLAIN }

\* lines 346-386: _clean_response applied to `content`
Clean(c, content) ==
  /\ MayStart(c)
  /\ calls' = [calls EXCEPT ![c] =
        [@ EXCEPT !.kind = "clean", !.pc = "done", !.content = PyStr(content),
                  !.result = PyStr(clean_response(content))]]
  /\ UNCHANGED <<api_key, OPENROUTER_API_KEY, recommendations_cache>>

\* the sanitizer is given a text, or what an earlier call of it returned
SanitizerNext ==
  \E c \in Calls :
    \E content \in SanitizerTexts
         \cup { calls[d].result.v :
                  d \in {e \in Calls : calls[e].kind = "clean" /\ calls[e].pc = "done"} } :
      Clean(c, content)

SanitizerSpec == Init /\ [][SanitizerNext]_vars

(***************************************************************************)
(* Properties of the Recommendation Engine (checked under Spec)            *)
(***************************************************************************)

\* the cache key of the request an invocation was made with
KeyOf(call) == cache_key(call.disease_name, call.confidence, call.crop_type)

\* invocation c of get_disease_recommendations has returned
RecDone(c) == calls[c].kind = "rec" /\ calls[c].pc = "done"

\* invocation c of get_disease_recommendations returns in this step
RecReturns(c) == calls[c].pc # "done" /\ calls'[c].kind = "rec" /\ calls'[c].pc = "done"

\* the mapping has all eight required fields
HasAllFields(x) ==
  IsDict(x) /\ \A i \in 1..Len(required_fields) : HasKey(x, required_fields[i])

\* C1: for every request and every provider outcome get_disease_recommendations
\* returns without raising, and what it returns is a Recommendation with all
\* eight required fields.
C1_AlwaysAllEightFields ==
  \A c \in Calls :
    RecDone(c) => ~calls[c].raised /\ HasAllFields(calls[c].result)

\* C2: an invocation that begins while the cache holds an entry for its key
\* returns that entry in the same step, issues no provider request and leaves
\* the cache as it was.
C2_CacheHitNoRequest ==
  [][\A c \in Calls :
       (/\ calls[c].pc = "idle"
        /\ calls'[c].kind = "rec"
        /\ KeyOf(calls'[c]) \in DOMAIN recommendations_cache)
       => /\ calls'[c].pc = "done"
          /\ calls'[c].result = recommendations_cache[KeyOf(calls'[c])]
          /\ calls'[c].net = 0
          /\ recommendations_cache' = recommendations_cache]_vars

\* an invocation was answered from the cache, without a provider request,
\* while another invocation had stored the entry
C2_Witness ==
  \E c, d \in Calls :
    /\ c # d /\ RecDone(c) /\ RecDone(d)
    /\ calls[c].hit /\ calls[c].net = 0
    /\ calls[d].net = 1 /\ KeyOf(calls[c]) = KeyOf(calls[d])
    /\ calls[c].result = calls[d].result

\* C3: whenever get_disease_recommendations returns a Recommendation it has
\* resolved (not one it read from the cache), the cache maps the key of the
\* request to exactly the value returned.
C3_ResolvedIsCached ==
  [][\A c \in Calls :
       (RecReturns(c) /\ ~calls'[c].hit)
       => /\ KeyOf(calls'[c]) \in DOMAIN recommendations_cache'
          /\ recommendations_cache'[KeyOf(calls'[c])] = calls'[c].result]_vars

\* C4: when is_available() is false, get_disease_recommendations stores the
\* structured fallback under the key of the request and returns it, and an
\* invocation that finds the entry returns it without a provider request.
C4_UnavailableIsCached ==
  [][\A c \in Calls :
       (RecReturns(c) /\ ~is_available)
       => /\ calls'[c].result =
               get_structured_fallback_recommendations(
                  calls'[c].disease_name, calls'[c].confidence, calls'[c].crop_type)
          /\ calls'[c].net = 0
          /\ KeyOf(calls'[c]) \in DOMAIN recommendations_cache'
          /\ recommendations_cache'[KeyOf(calls'[c])] = calls'[c].result
          /\ (KeyOf(calls'[c]) \in DOMAIN recommendations_cache => calls'[c].hit)]_vars

\* C5: when the provider answers with status 200 and a text that is a JSON
\* object holding all eight required fields, the Recommendation returned
\* carries the provider's values.
C5_ProviderValuesReturned ==
  \A c \in Calls :
    (/\ RecDone(c) /\ ~calls[c].hit
     /\ WithPayload(calls[c].outcome)
          = Outcome("http", 200, TRUE, NestedPayload(T_COMPLETE)))
    => calls[c].result = ProviderRecommendation

\* C6: with the provider disabled, a subject that contains "cashew_leafminer"
\* in any letter case gets the cashew-leafminer template, whose severity_level
\* is "High", not the leaf-and-miner template and not the generic one.
C6_CashewLeafminerIsHigh ==
  \A c \in Calls :
    (/\ RecDone(c) /\ ~is_available
     /\ Contains(S_CASHEW, Lower(calls[c].disease_name)))
    => /\ HasAllFields(calls[c].result)
       /\ Get(calls[c].result, F_SEVERITY) = PyStr(<<"High">>)
       /\ calls[c].result = CashewLeafminerTemplate(calls[c].disease_name)
       /\ calls[c].result # LeafMinerTemplate(calls[c].disease_name)

\* the provider is disabled and "Cashew_Leafminer" was answered with "High"
C6_Witness ==
  \E c \in Calls :
    /\ RecDone(c) /\ ~is_available
    /\ calls[c].disease_name = S_CASHEW_UPPER
    /\ Get(calls[c].result, F_SEVERITY) = PyStr(<<"High">>)

\* C7: with the provider disabled, a subject X that matches no specific
\* template gets, for every confidence, all eight fields from the generic
\* template: severity_level is "Moderate" and the overview names X and the
\* category Y; the confidence does not change the result.
C7_GenericIsModerate ==
  \A c \in Calls :
    (/\ RecDone(c) /\ ~is_available
     /\ ~Contains(S_CASHEW, Lower(calls[c].disease_name))
     /\ ~(/\ Contains(<<"leaf">>, Lower(calls[c].disease_name))
          /\ Contains(<<"miner">>, Lower(calls[c].disease_name))))
    => /\ HasAllFields(calls[c].result)
       /\ Get(calls[c].result, F_SEVERITY) = PyStr(<<"Moderate">>)
       /\ Get(calls[c].result, F_ACTIONS) = PyStr(<<"generic", " ", "immediate actions">>)
       /\ Get(calls[c].result, F_OVERVIEW) =
            PyStr(<<"General information about", " ">> \o calls[c].disease_name
                  \o <<" ", "affecting", " ">> \o calls[c].crop_type
                  \o <<" ", "plants.">>)
       /\ \A d \in Calls :
            (/\ RecDone(d)
             /\ calls[d].disease_name = calls[c].disease_name
             /\ calls[d].crop_type = calls[c].crop_type)
            => calls[d].result = calls[c].result

\* the provider is disabled and "maize_streak" was answered with "Moderate"
\* at two confidences
C7_Witness ==
  \E c, d \in Calls :
    /\ RecDone(c) /\ RecDone(d) /\ ~is_available
    /\ calls[c].disease_name = S_GENERIC /\ calls[d].disease_name = S_GENERIC
    /\ calls[c].confidence # calls[d].confidence
    /\ Get(calls[c].result, F_SEVERITY) = PyStr(<<"Moderate">>)
    /\ Get(calls[d].result, F_SEVERITY) = PyStr(<<"Moderate">>)

(***************************************************************************)
(* Properties of the Chat Orchestrator and of the provider call (checked   *)
(* under GatewaySpec)                                                      *)
(***************************************************************************)

\* invocation c of chat_with_ai has returned
ChatDone(c) == calls[c].kind = "chat" /\ calls[c].pc = "done"

\* C8: chat_with_ai never raises, and what it returns is a non-empty text,
\* whatever the provider did.
C8_ChatNonEmptyText ==
  \A c \in Calls :
    ChatDone(c) => /\ ~calls[c].raised
                   /\ IsStr(calls[c].result)
                   /\ calls[c].result.v # <<>>

\* C9: a provider response with status 402 does not raise; the provider call
\* returns the Fallback Responder's output for the last user-role content of
\* the messages (for the empty text when there is none), and chat_with_ai
\* returns the Fallback Responder's output for the user message.
C9_Status402IsSoftFailure ==
  \A c \in Calls :
    (/\ calls[c].kind \in {"chat", "request"}
     /\ calls[c].pc = "done" /\ calls[c].outcome.status = 402)
    => LET users == SelectSeq(calls[c].messages, LAMBDA m : m.role = "user")
           last == IF users = <<>> THEN <<>> ELSE users[Len(users)].content
       IN /\ ~calls[c].raised
          /\ calls[c].result = PyStr(get_fallback_response(last))
          /\ calls[c].kind = "chat" => last = calls[c].user_message

\* a provider call with two user turns was answered with status 402 and
\* returned the canned answer for the later turn
C9_Witness ==
  \E c \in Calls :
    /\ calls[c].kind = "request" /\ calls[c].pc = "done"
    /\ calls[c].outcome.status = 402
    /\ Len(SelectSeq(calls[c].messages, LAMBDA m : m.role = "user")) = 2
    /\ calls[c].result = PyStr(FB_PEST)

\* C10: when is_available() is false, chat_with_ai returns the Fallback
\* Responder's output for the user message without a network attempt.
C10_UnavailableChatNoNetwork ==
  \A c \in Calls :
    (calls[c].kind = "chat" /\ calls[c].pc # "idle" /\ ~is_available)
    => /\ calls[c].net = 0
       /\ calls[c].pc = "done"
       /\ calls[c].result = PyStr(get_fallback_response(calls[c].user_message))

\* C11: every provider text that chat_with_ai returns has passed through the
\* Response Sanitizer: what the caller gets for a completion with a non-empty
\* text is _clean_response of that text, never the text as the provider sent it.
C11_ChatTextIsSanitized ==
  \A c \in Calls :
    (/\ ChatDone(c)
     /\ calls[c].outcome.type = "completion"
     /\ Len(Payloads[calls[c].outcome.data].v) > 0
     /\ IsStr(Payloads[calls[c].outcome.data].v[1])
     /\ Payloads[calls[c].outcome.data].v[1].v # <<>>)
    => calls[c].result = PyStr(clean_response(Payloads[calls[c].outcome.data].v[1].v))

\* C12: is_available() is true exactly when the provider credential
\* settings.ALLEAI_API_KEY is configured; with an empty ALLEAI_API_KEY it is
\* false.
C12_AvailableIffCredential ==
  is_available <=> api_key # <<>>

\* invocation c of _make_alleai_request or test_connection has returned or
\* raised after the provider answered
ProviderCallDone(c) ==
  calls[c].kind \in {"request", "test"} /\ calls[c].pc = "done" /\ calls[c].net = 1

\* the provider answered with a success status and a body that decodes
Decoded(outcome) == outcome.type = "http" /\ outcome.status = 200 /\ outcome.decodes

\* x is a string with something in it
NonEmptyStr(x) == IsStr(x) /\ x.v # <<>>

\* C13: test_connection() returns true only if its one round-trip succeeded,
\* that is, the provider answered with a success status and a content the
\* Extractor could take; after a network error, a timeout, status 402 or any
\* other non-success status it returns false.
C13_TestTrueOnlyOnSuccess ==
  \A c \in Calls :
    (calls[c].kind = "test" /\ calls[c].pc = "done")
    => /\ calls[c].result \in {PyTrue, PyFalse}
       /\ calls[c].result = PyTrue
            => /\ calls[c].net = 1
               /\ Decoded(calls[c].outcome)
               /\ NonEmptyStr(calls[c].content)

(***************************************************************************)
(* Properties of malformed input (checked under InputSpec)                 *)
(***************************************************************************)

\* C14: get_disease_recommendations called with an empty subject ends in an
\* error for the caller, not in a Recommendation; with a subject, no failure
\* of the provider ends in an error.
C14_EmptySubjectIsAnError ==
  \A c \in Calls :
    RecDone(c) => (calls[c].raised <=> calls[c].disease_name = <<>>)

(***************************************************************************)
(* Properties of the parse steps of the Recommendation Engine (checked     *)
(* under Spec)                                                             *)
(***************************************************************************)

\* the structured fallback for the request of an invocation
FallbackOf(call) ==
  get_structured_fallback_recommendations(call.disease_name, call.confidence,
                                          call.crop_type)

\* C15: when the provider's JSON parses but lacks some of the eight fields,
\* the Recommendation returned keeps the provider's value in every field the
\* provider supplied and takes exactly the missing fields from the structured
\* fallback for the request.
C15_MissingFieldsBackfilled ==
  \A c \in Calls :
    (/\ RecDone(c) /\ ~calls[c].hit
     /\ WithPayload(calls[c].outcome)
          = Outcome("http", 200, TRUE, NestedPayload(json_dumps(PartialRecommendation))))
    => /\ HasAllFields(calls[c].result)
       /\ \A i \in 1..Len(required_fields) :
            Get(calls[c].result, required_fields[i])
              = IF HasKey(PartialRecommendation, required_fields[i])
                THEN Get(PartialRecommendation, required_fields[i])
                ELSE Get(FallbackOf(calls[c]), required_fields[i])

\* C16: when the provider's text is not JSON as a whole but holds a JSON
\* object, as in 'Sure! {"a": 1} done', the object between the first "{" and
\* the last "}" is parsed and completed from the fallback: the Recommendation
\* returned carries the object's own entry.
C16_EmbeddedObjectRecovered ==
  \A c \in Calls :
    (/\ RecDone(c) /\ ~calls[c].hit
     /\ WithPayload(calls[c].outcome)
          = Outcome("http", 200, TRUE, NestedPayload(T_PROSE_JSON)))
    => /\ HasAllFields(calls[c].result)
       /\ HasKey(calls[c].result, <<"a">>)
       /\ Get(calls[c].result, <<"a">>) = PyNum("1")

(***************************************************************************)
(* Properties of the Extractor and the Transport Client (checked under     *)
(* GatewaySpec)                                                            *)
(***************************************************************************)

\* the payload has the nested provider shape with a non-empty string for the
\* first model
HasNestedText(p) ==
  /\ IsDict(p) /\ HasKey(p, <<"responses">>)
  /\ IsDict(Get(p, <<"responses">>))
  /\ HasKey(Get(p, <<"responses">>), <<"responses">>)
  /\ IsDict(Get(Get(p, <<"responses">>), <<"responses">>))
  /\ Len(Get(Get(p, <<"responses">>), <<"responses">>).v) > 0
  /\ NonEmptyStr(Get(Get(p, <<"responses">>), <<"responses">>).v[1].x)
  /\ Strip(Get(Get(p, <<"responses">>), <<"responses">>).v[1].x.v) # <<>>

\* the string of the first model in the nested provider shape
NestedText(p) == Get(Get(p, <<"responses">>), <<"responses">>).v[1].x

\* C17: for a payload that has both the nested provider shape with a non-empty
\* string and a direct `content` field, the Extractor takes the nested value,
\* wherever the `content` field stands in the payload; the same payload gives
\* the same content in every call.
C17_NestedShapeWins ==
  \A c \in Calls :
    (/\ ProviderCallDone(c) /\ Decoded(calls[c].outcome)
     /\ HasNestedText(Payloads[calls[c].outcome.data])
     /\ HasKey(Payloads[calls[c].outcome.data], <<"content">>))
    => /\ calls[c].content = NestedText(Payloads[calls[c].outcome.data])
       /\ calls[c].content # Get(Payloads[calls[c].outcome.data], <<"content">>)
       /\ ~calls[c].raised
       /\ calls[c].kind = "request"
            => calls[c].result = PyStr(clean_response(calls[c].content.v))
       /\ \A d \in Calls :
            (ProviderCallDone(d) /\ calls[d].outcome = calls[c].outcome)
            => calls[d].content = calls[c].content

\* a provider call was answered with the nested shape after a `content`
\* field, and the nested text was taken
C17_Witness ==
  \E c \in Calls :
    /\ calls[c].kind = "request" /\ calls[c].pc = "done"
    /\ calls[c].outcome.data = "content_and_nested"
    /\ calls[c].content = PyStr(T_PLAIN)
    /\ calls[c].result = PyStr(clean_response(T_PLAIN))

\* the field of the payload if it is a non-empty string, None otherwise
StringField(p, k) ==
  IF HasKey(p, k) /\ NonEmptyStr(Get(p, k)) THEN Get(p, k) ELSE PyNone

\* the text of the first message of the choices array if it is a non-empty
\* string, None otherwise
ChoicesText(p) ==
  IF /\ HasKey(p, <<"choices">>)
     /\ Get(p, <<"choices">>).t = "list"
     /\ Len(Get(p, <<"choices">>).v) > 0
     /\ ~ChoicesContent(Get(p, <<"choices">>)).raises
     /\ NonEmptyStr(ChoicesContent(Get(p, <<"choices">>)).content)
  THEN ChoicesContent(Get(p, <<"choices">>)).content
  ELSE PyNone

\* the first non-empty string among the probes, in the order: nested provider
\* map, choices, message, content, response, text; None if there is none
FirstNonEmptyString(p) ==
  LET probes == <<IF HasNestedText(p) THEN NestedText(p) ELSE PyNone,
                  ChoicesText(p),
                  StringField(p, <<"message">>), StringField(p, <<"content">>),
                  StringField(p, <<"response">>), StringField(p, <<"text">>)>>
      found == {i \in 1..Len(probes) : probes[i] # PyNone}
  IN IF found = {} THEN PyNone ELSE probes[Min(found)]

\* C18: for every decoded payload the Extractor ends with the first non-empty
\* string among its probes in the order nested provider map, choices, message,
\* content, response, text, and it ends without a content only when no probe
\* gives a non-empty string.
C18_FirstNonEmptyStringInOrder ==
  \A c \in Calls :
    (/\ ProviderCallDone(c) /\ Decoded(calls[c].outcome)
     /\ IsDict(Payloads[calls[c].outcome.data]))
    => calls[c].content = FirstNonEmptyString(Payloads[calls[c].outcome.data])

\* C19: a provider response whose status is neither a success nor 402 makes
\* the provider call raise to its caller.
C19_ErrorStatusRaises ==
  \A c \in Calls :
    (/\ calls[c].kind = "request" /\ calls[c].pc = "done"
     /\ calls[c].outcome.type = "http"
     /\ calls[c].outcome.status >= 400 /\ calls[c].outcome.status # 402)
    => calls[c].raised

\* C20: a network failure or a timeout of the provider call does not reach the
\* caller as an exception: the call returns the Fallback Responder's output
\* for the last user-role content of its messages.
C20_NetworkFailureIsFallback ==
  \A c \in Calls :
    (/\ calls[c].kind \in {"request", "test"} /\ calls[c].pc = "done"
     /\ calls[c].outcome.type \in {"client_error", "timeout"})
    => LET users == SelectSeq(calls[c].messages, LAMBDA m : m.role = "user")
           last == IF users = <<>> THEN <<>> ELSE users[Len(users)].content
       IN /\ ~calls[c].raised
          /\ calls[c].kind = "request"
               => calls[c].result = PyStr(get_fallback_response(last))
          /\ calls[c].kind = "test" => calls[c].result = PyTrue

\* a provider call without a user turn timed out and returned the generic
\* canned answer
C20_Witness ==
  \E c \in Calls :
    /\ calls[c].kind = "request" /\ calls[c].pc = "done"
    /\ calls[c].outcome.type = "timeout"
    /\ SelectSeq(calls[c].messages, LAMBDA m : m.role = "user") = <<>>
    /\ ~calls[c].raised
    /\ calls[c].result = PyStr(FB_GENERIC)

\* the request of a recommendation call
RequestOf(call) ==
  [disease_name |-> call.disease_name, confidence |-> call.confidence,
   crop_type |-> call.crop_type]

\* C21: an invocation of get_disease_recommendations issues at most one
\* provider request; a timeout resolves to what any other network failure
\* resolves to (the fallback Recommendation, nothing raised), and the
\* invocation returns in the step in which its single request resolves.
C21_AtMostOneRequest ==
  /\ [](\A c \in Calls :
          calls[c].kind = "rec"
          => /\ calls[c].net <= 1
             /\ calls[c].pc = "await" => calls[c].net = 1
             /\ (calls[c].pc = "done" /\ calls[c].outcome.type = "timeout")
                => /\ ~calls[c].raised
                   /\ calls[c].result = FallbackOf(calls[c])
                   /\ calls[c].result =
                        AfterAwait[RequestOf(calls[c]),
                                   Outcome("client_error", 0, FALSE, "none")].result)
  /\ [][\A c \in Calls :
          (calls[c].kind = "rec" /\ calls[c].pc = "await" /\ calls'[c] # calls[c])
          => calls'[c].pc = "done" /\ calls'[c].net = 1]_vars

\* a recommendation call whose only request timed out has returned the
\* fallback Recommendation
C21_Witness ==
  \E c \in Calls :
    /\ calls[c].kind = "rec" /\ calls[c].pc = "done"
    /\ calls[c].outcome.type = "timeout"
    /\ calls[c].net = 1
    /\ calls[c].result = FallbackOf(calls[c])

\* the keyword groups of the Fallback Responder and their canned texts, in
\* the order the claim lists them
KeywordGroups ==
  << [words |-> {"disease", "sick", "problem"}, text |-> FB_DISEASE],
     [words |-> {"soil", "fertilizer", "nutrient"}, text |-> FB_SOIL],
     [words |-> {"water", "irrigation"}, text |-> FB_WATER],
     [words |-> {"pest", "insect", "bug"}, text |-> FB_PEST],
     [words |-> {"treatment", "cure", "fix"}, text |-> FB_TREATMENT],
     [words |-> {"prevent", "avoid"}, text |-> FB_PREVENT],
     [words |-> {"organic", "natural"}, text |-> FB_ORGANIC] >>

\* the groups one of whose keywords occurs in the message, ignoring case
MatchingGroups(message) ==
  { i \in DOMAIN KeywordGroups :
      \E w \in KeywordGroups[i].words : Contains(<<w>>, Lower(message)) }

\* the canned text of the first matching group, the overview if none matches
FirstGroupText(message) ==
  IF MatchingGroups(message) = {} THEN FB_GENERIC
  ELSE KeywordGroups[Min(MatchingGroups(message))].text

\* C22: a chat whose completion call failed returns the canned text of the
\* first keyword group, in the fixed order, that occurs case-insensitively
\* in the user message, and the capability overview when none occurs; the
\* text is never empty and nothing is raised.
C22_FirstKeywordGroupWins ==
  \A c \in Calls :
    (ChatDone(c) /\ calls[c].outcome.type # "completion")
    => /\ calls[c].result = PyStr(FirstGroupText(calls[c].user_message))
       /\ calls[c].result.v # <<>>
       /\ ~calls[c].raised

\* a failed chat about "Pests and disease" was answered with the disease text
C22_Witness ==
  \E c \in Calls :
    /\ ChatDone(c) /\ calls[c].outcome.type = "timeout"
    /\ calls[c].user_message = M_BOTH
    /\ Cardinality(MatchingGroups(M_BOTH)) = 2
    /\ calls[c].result = PyStr(FB_DISEASE)

\* the texts of a sequence of texts, one after the other
RECURSIVE Concat(_)
Concat(texts) == IF texts = <<>> THEN <<>> ELSE texts[1] \o Concat(Tail(texts))

\* the system texts of a message list, each followed by a blank line
SystemTexts(messages) ==
  LET system == SelectSeq(messages, LAMBDA m : m.role = "system")
  IN [i \in DOMAIN system |-> system[i].content \o <<"\n", "\n">>]

\* the user and assistant turns of a message list in conversation order, one
\* per line, assistant turns marked as prior context
TurnTexts(messages) ==
  LET turns == SelectSeq(messages, LAMBDA m : m.role \in {"user", "assistant"})
  IN [i \in DOMAIN turns |->
        (IF turns[i].role = "assistant"
         THEN <<"Previous", " ", "response", ":", " ">> ELSE <<>>)
        \o turns[i].content \o <<"\n">>]

\* C23: the payload of a provider call holds exactly one aggregated user
\* turn with one text block, whose text is the system text followed by the
\* user and assistant turns in conversation order (assistant turns prefixed
\* as prior context), separated by line breaks and stripped at both ends.
C23_OneAggregatedUserTurn ==
  \A c \in Calls :
    (calls[c].kind \in {"request", "test"} /\ calls[c].net = 1)
    => LET turns == calls[c].alleai_messages
       IN /\ Len(turns) = 1
          /\ DOMAIN turns[1] = {"user"}
          /\ Len(turns[1].user) = 1
          /\ turns[1].user[1].type = "text"
          /\ turns[1].user[1].text =
               Strip(Concat(SystemTexts(calls[c].messages))
                     \o Concat(TurnTexts(calls[c].messages)))

\* a provider call with a system text, two user turns and an assistant turn
\* between them was sent as one text that ends with the new user text
C23_Witness ==
  \E c \in Calls :
    /\ calls[c].kind = "request" /\ calls[c].net = 1
    /\ Len(SystemTexts(calls[c].messages)) = 1
    /\ Len(TurnTexts(calls[c].messages)) = 3
    /\ calls[c].alleai_messages[1].user[1].text =
         <<"about", " ", "disease", "\n", "\n", "my", " ", "soil", "\n",
           "Previous", " ", "response", ":", " ", "add", " ", "water", "\n">>
         \o M_PESTS

\* a finished sanitizer call
CleanDone(c) == calls[c].kind = "clean" /\ calls[c].pc = "done"

\* C24: the Response Sanitizer is idempotent: a sanitizer call that is given
\* the output of an earlier sanitizer call returns that text unchanged.
C24_SanitizerIdempotent ==
  \A c, d \in Calls :
    (CleanDone(c) /\ CleanDone(d) /\ calls[d].content = calls[c].result)
    => calls[d].result = calls[c].result

\* the delimiters of JSON objects and arrays
JsonDelimiters == {"{", "}", "[", "]"}

\* C25: the output of the Response Sanitizer contains none of the JSON
\* object or array delimiters, whatever the input text.
C25_NoJsonDelimiters ==
  \A c \in Calls :
    CleanDone(c)
    => \A i \in DOMAIN calls[c].result.v : calls[c].result.v[i] \notin JsonDelimiters

\* the Recommendations an invocation made with this request can resolve to
ResultsFor(req) ==
  { AfterAwait[req, outcome].result : outcome \in Outcomes }
  \cup { get_structured_fallback_recommendations(req.disease_name, req.confidence,
                                                 req.crop_type) }

\* C27: requests that differ in subject, confidence or category have
\* different cache keys, and an invocation answered from the cache returns a
\* Recommendation that was resolved for its own request.
C27_CacheKeyInjective ==
  \A c \in Calls :
    calls[c].kind = "rec"
    => /\ \A d \in Calls :
            (calls[d].kind = "rec" /\ RequestOf(calls[d]) # RequestOf(calls[c]))
            => KeyOf(calls[d]) # KeyOf(calls[c])
       /\ (calls[c].pc = "done" /\ calls[c].hit)
          => calls[c].result \in ResultsFor(RequestOf(calls[c]))

\* C26: two invocations for one cache key that are both suspended at the
\* provider call have both missed the cache and both issued a request, and
\* whenever an invocation returns from the provider call the cache entry of
\* its key is the Recommendation it returns, so after both have completed
\* the entry is that of the one that completed last.
C26_OverlapLastWriteWins ==
  /\ [](\A c, d \in Calls :
          (/\ c # d
           /\ calls[c].kind = "rec" /\ calls[d].kind = "rec"
           /\ calls[c].pc = "await" /\ calls[d].pc = "await"
           /\ KeyOf(calls[c]) = KeyOf(calls[d]))
          => /\ calls[c].net = 1 /\ calls[d].net = 1
             /\ ~calls[c].hit /\ ~calls[d].hit)
  /\ [][\A c \in Calls :
          (calls[c].kind = "rec" /\ calls[c].pc = "await" /\ calls'[c].pc = "done")
          => /\ KeyOf(calls[c]) \in DOMAIN recommendations_cache'
             /\ recommendations_cache'[KeyOf(calls[c])] = calls'[c].result]_vars

\* two invocations for one key that both issued a request have completed
\* with different Recommendations, and the cache holds one of the two
C26_Witness ==
  \E c, d \in Calls :
    /\ c # d /\ RecDone(c) /\ RecDone(d)
    /\ KeyOf(calls[c]) = KeyOf(calls[d])
    /\ calls[c].net = 1 /\ calls[d].net = 1
    /\ calls[c].result # calls[d].result
    /\ KeyOf(calls[d]) \in DOMAIN recommendations_cache
    /\ recommendations_cache[KeyOf(calls[d])] = calls[d].result

\* C28: while the cache holds an entry for a key (an invocation for the key
\* has returned since the cache was last cleared), every invocation for that
\* key that returns yields that Recommendation, also when it was suspended
\* at the provider call while the entry was written.
C28_LaterReturnsAgree ==
  [][\A c \in Calls :
       (RecReturns(c) /\ KeyOf(calls'[c]) \in DOMAIN recommendations_cache)
       => calls'[c].result = recommendations_cache[KeyOf(calls'[c])]]_vars

\* clear_cache ran while invocation c was suspended: an invocation that
\* started after c has returned, which left or found an entry for its key
\* when the provider is available, and the cache holds no entry for that key
ClearedInFlight(c) ==
  /\ calls[c].kind = "rec" /\ calls[c].pc = "await"
  /\ \E d \in Calls :
       /\ d > c /\ RecDone(d) /\ is_available
       /\ KeyOf(calls[d]) \notin DOMAIN recommendations_cache

\* C29: an invocation that was suspended at the provider call while
\* clear_cache ran leaves the cache as it is when it returns: it writes no
\* entry, and the size get_cache_stats reports does not change.
C29_NoEntryFromBeforeClear ==
  [][\A c \in Calls :
       (ClearedInFlight(c) /\ calls'[c].pc = "done")
       => /\ recommendations_cache' = recommendations_cache
          /\ get_cache_stats'.cache_size = get_cache_stats.cache_size]_vars

\* a request to an /ai route has been answered with an HTTPException
RouteRaised(c) == calls[c].kind = "route" /\ calls[c].pc = "done" /\ calls[c].raised

\* C30: an HTTPException raised inside an /ai route handler reaches the
\* client with its own status code: 503 while the service is unavailable,
\* and 400 for a disease-analysis prompt of fewer than three parts.
C30_RouteKeepsStatusCode ==
  \A c \in Calls :
    RouteRaised(c)
    => /\ calls[c].content # PyNone => calls[c].result = calls[c].content
       /\ ~is_available => calls[c].result = PyNum("503")
       /\ (/\ is_available
           /\ calls[c].path = "disease-analysis"
           /\ Len(Split(calls[c].user_message, "|")) < 3)
          => calls[c].result = PyNum("400")

====
